---- MODULE Spec2Model ----
(***************************************************************************)
(* Model of the chat server of src/examples/chat.rs.                       *)
(*                                                                         *)
(* One session task per accepted connection runs handle_client; one        *)
(* writer task per registered peer drains that peer's bounded mpsc channel *)
(* into the peer's TCP stream.  AppState.peers is a DashMap: a sharded map *)
(* whose iterator keeps the read lock of the shard it is walking, and      *)
(* whose insert and remove take that shard's write lock.                   *)
(*                                                                         *)
(* A connection is identified by its SocketAddr.  In Spec every address    *)
(* connects at most once in a behaviour; RegistrySpec follows the registry *)
(* alone when a client reconnects from an address whose earlier session is *)
(* not over yet.  ShortenSpec is AppState::shorten of                      *)
(* src/examples/shortener.rs.                                              *)
(***************************************************************************)
EXTENDS Naturals, Sequences, FiniteSets

VARIABLES
    pc,        \* where each session task is in handle_client
    username,  \* the first line each session read (NoLine: none was read)
    peers,     \* AppState.peers: the addresses that have an entry
    mbox,      \* the messages queued in each peer's channel
    rx,        \* each peer's writer task: none, recv, write, done, failed
    wmsg,      \* the message a writer is writing to its stream
    bmsg,      \* the message of the broadcast a session is in
    it,        \* the DashMap iterator of the broadcast a session is in
    lines,     \* chat lines read so far, over all sessions
    order,     \* the sessions inside broadcast, in the order they entered it
    conn,      \* RegistrySpec: where the session of each connection is
    raddr,     \* RegistrySpec: the remote address of each connection
    entry,     \* RegistrySpec: AppState.peers, the connection whose sender
               \* each address maps to
    chan,      \* RegistrySpec: the channel each connection's state.add made
    removed,   \* RegistrySpec: what peers.remove returned to each session
    urls,      \* ShortenSpec: the urls table, the url stored under each id
    call       \* ShortenSpec: each call of shorten

chatVars == <<pc, username, peers, mbox, rx, wmsg, bmsg, it, lines, order>>

registryVars == <<conn, raddr, entry, chan, removed>>

shortenVars == <<urls, call>>

vars == <<chatVars, registryVars, shortenVars>>

---------------------------------------------------------------------------
(* Bounds of the model. *)

\* Number of connections (socket addresses 1..NumAddrs).
NumAddrs == 3

\* Capacity of a peer's channel: MAX_MESSAGE of chat.rs (128 there), scaled
\* down so that a full mailbox is reached.
MAX_MESSAGE == 2

\* Number of shards of the DashMap.
NumShards == 2

\* Chat lines the server reads in a behaviour, over all sessions.
MaxChat == 1

\* Longest first line (username) a client sends.
MaxLineLen == 1

\* Peers 1..MaxSlow are slow: their writer task may lag behind its channel,
\* and a write to their stream may stay pending or fail.  The writer of any
\* other peer takes each message as it is queued and its write completes at
\* once.
MaxSlow == 1

Addrs == 1..NumAddrs

NoAddr == NumAddrs + 1

NoShard == NumShards

Chars == {" ", "a"}

Slow(a) == a <= MaxSlow

---------------------------------------------------------------------------
(* Lines and the username check. *)

SeqsUpTo(S, n) == UNION {[1..k -> S] : k \in 0..n}

Lines == SeqsUpTo(Chars, MaxLineLen)

NoLine == <<"?">>

IsWhitespace(c) == c = " "

RECURSIVE TrimStart(_)
TrimStart(s) ==
    IF s # <<>> /\ IsWhitespace(Head(s)) THEN TrimStart(Tail(s)) ELSE s

RECURSIVE TrimEnd(_)
TrimEnd(s) ==
    IF s # <<>> /\ IsWhitespace(s[Len(s)])
    THEN TrimEnd(SubSeq(s, 1, Len(s) - 1))
    ELSE s

\* str::trim
Trim(s) == TrimEnd(TrimStart(s))

\* A check that does not trim.
UsernameRejectedUntrimmed(line) == line = <<>>

\* line.trim().is_empty()
UsernameRejected(line) == Trim(line) = <<>>

---------------------------------------------------------------------------
(* Messages. *)

NoMsg == [from |-> NoAddr, kind |-> "None"]

\* Message::UserJoined / Message::Chat / Message::UserLeft, built by the
\* session of address a.
MkMessage(a, kind) == [from |-> a, kind |-> kind]

---------------------------------------------------------------------------
(* The DashMap and its iterator. *)

\* The shard a key hashes to.
ShardOf(a) == a % NumShards

\* DashMap::insert
Insert(reg, a) == reg \cup {a}

\* A remove that leaves the entry.
RemoveKeyNoop(reg, a) == reg

\* DashMap::remove
RemoveKey(reg, a) == reg \ {a}

\* An iterator: the shard whose read lock it holds (NoShard before the first
\* call of next), the entries of that shard it has not yielded yet, the peer
\* whose full channel its send is waiting on, what the sends of this
\* broadcast did so far (those that failed are the ones warn! logs), the
\* addresses that had an entry when broadcast was entered, and whether any
\* session was inside broadcast then.
IdleIter ==
    [held |-> NoShard, rest |-> {}, cur |-> NoAddr, log |-> <<>>,
     snap |-> {}, busy |-> FALSE]

\* Sessions whose iterator holds the read lock of shard s.
Readers(s) == {a \in Addrs : it[a].held = s}

\* A lock that never makes insert or remove wait.
CanWriteAlways(a) == TRUE

\* insert and remove need the write lock of the key's shard.
CanWrite(a) == Readers(ShardOf(a)) = {}

\* A loop that skips no entry.
IsSenderNever(key, addr) == FALSE

\* peer.key() == &addr
IsSender(key, addr) == key = addr

\* The entries of shard s the loop body does not skip for sender a.
Recipients(s, a) == {k \in peers : ShardOf(k) = s /\ ~IsSender(k, a)}

\* An iterator that starts at the second shard.
ShardsAfterFirst(h) == IF h = NoShard THEN 1..(NumShards - 1)
                       ELSE (h + 1)..(NumShards - 1)

\* Shards the iterator has still to visit.
ShardsAfter(h) == IF h = NoShard THEN 0..(NumShards - 1)
                  ELSE (h + 1)..(NumShards - 1)

\* Iter::next as the loop drives it: the position from which the next entry
\* that is not skipped is yielded.  It stays in the current shard while
\* something is left there, else it takes the read lock of the next shard
\* that has such an entry and lets go of the one it held; with no such
\* shard the iteration is over.
NextPos(a) ==
    IF it[a].rest # {} THEN [held |-> it[a].held, rest |-> it[a].rest]
    ELSE LET S == {s \in ShardsAfter(it[a].held) : Recipients(s, a) # {}}
         IN  IF S = {} THEN [held |-> NoShard, rest |-> {}]
             ELSE LET s == CHOOSE x \in S : \A y \in S : x <= y
                  IN  [held |-> s, rest |-> Recipients(s, a)]

---------------------------------------------------------------------------
(* The bounded channel of a peer. *)

RxAlive(t) == rx[t] \in {"recv", "write"}

\* A channel that is made with a message in it.
NewChannelWithBacklog == <<NoMsg>>

\* mpsc::channel(MAX_MESSAGE): nothing is queued in a channel just made.
NewChannel == <<>>

\* A channel that is over as soon as its sender is dropped.
ChannelClosedOnRemove(a) == a \notin peers

\* rx.recv() yields None on the channel of peer a: the map's entry, which
\* held the only Sender, is gone and nothing is queued.
ChannelClosed(a) == a \notin peers /\ mbox[a] = <<>>

\* A send that never waits: the channel takes any number of messages.
SendOutcomeNeverFull(t) == IF ~RxAlive(t) THEN "closed" ELSE "ok"

\* A send that does not notice that the receiver is gone.
SendOutcomeIgnoresClosed(t) ==
    IF Len(mbox[t]) >= MAX_MESSAGE THEN "full" ELSE "ok"

\* Outcome of Sender::send on the channel of peer t: an error once the
\* receiver is dropped, a wait while the channel holds MAX_MESSAGE messages.
SendOutcome(t) ==
    IF ~RxAlive(t) THEN "closed"
    ELSE IF Len(mbox[t]) >= MAX_MESSAGE THEN "full"
    ELSE "ok"

\* A channel that puts a sent message ahead of those it holds.
EnqueueFront(q, m) == <<m>> \o q

\* The channel queues a sent message behind those it holds.
Enqueue(q, m) == Append(q, m)

\* The channel of peer t after a send of m succeeded.  The writer of a peer
\* that is not slow takes the message and writes it as soon as it is queued.
Sent(t, q, m) == IF Slow(t) THEN Enqueue(q, m) ELSE q

\* What a completed send leaves in the broadcast's record.
Logged(a, t, res) == Append(it[a].log, [to |-> t, res |-> res])

---------------------------------------------------------------------------
(* The registry when an address connects again. *)

\* Connections accepted in a behaviour of RegistrySpec.
NumConns == 3

Conns == 1..NumConns

NoConn == NumConns + 1

\* A remove that reports a missing key by clearing the map.
RemoveEntryStrict(m, k) ==
    IF m[k] = NoConn THEN [j \in DOMAIN m |-> NoConn]
    ELSE [m EXCEPT ![k] = NoConn]

\* DashMap::remove: the entry of key k is taken out, if there is one.
RemoveEntry(m, k) == [m EXCEPT ![k] = NoConn]

\* DashMap::insert: key k maps to v, whatever it mapped to before.
InsertEntry(m, k, v) == [m EXCEPT ![k] = v]

\* The map drops the Sender it held for connection c (the only one there
\* is): c's channel is closed, its writer ends once it has drained it.
DropSender(ch, c) == IF c = NoConn THEN ch ELSE [ch EXCEPT ![c] = "closed"]

\* The client of connection c has not hung up: the address is in use.
OnWire(c) == conn[c] \in {"add", "active"}

RegistryInit ==
    /\ conn = [c \in Conns |-> "idle"]
    /\ raddr = [c \in Conns |-> NoAddr]
    /\ entry = [k \in Addrs |-> NoConn]
    /\ chan = [c \in Conns |-> "none"]
    /\ removed = [c \in Conns |-> "pending"]

---------------------------------------------------------------------------
(* AppState::shorten of src/examples/shortener.rs. *)

\* Calls of shorten in a behaviour of ShortenSpec.
NumCalls == 2

\* Ids nanoid!(6) can yield.
NumIds == 2

\* Urls that are shortened.
NumUrls == 2

\* let max_retries = 5;
max_retries == 5

Calls == 1..NumCalls

Ids == 1..NumIds

Urls == 1..NumUrls

NoId == NumIds + 1

NoUrl == NumUrls + 1

NoResult == [kind |-> "none", id |-> NoId]

IdleCall ==
    [state |-> "idle", url |-> NoUrl, id |-> NoId, retries |-> 0,
     attempts |-> 0, result |-> NoResult]

\* The id under which the table stores this url.
IdOf(tbl, url) == CHOOSE i \in Ids : tbl[i] = url

\* INSERT INTO urls (id, url) VALUES ($1, $2) ON CONFLICT(url) DO UPDATE SET
\* url=EXCLUDED.url RETURNING id, on a table whose primary key is id and
\* whose url is unique: a row with this url is kept and its id returned;
\* else a row with this id makes the insert fail on urls_pkey; else the row
\* is inserted.
InsertOutcome(tbl, id, url) ==
    IF \E i \in Ids : tbl[i] = url
    THEN [kind |-> "Ok", id |-> IdOf(tbl, url), tbl |-> tbl]
    ELSE IF tbl[id] # NoUrl
    THEN [kind |-> "urls_pkey", id |-> NoId, tbl |-> tbl]
    ELSE [kind |-> "Ok", id |-> id, tbl |-> [tbl EXCEPT ![id] = url]]

\* A loop that allows one retry more.
MayRetryOnceMore(retries) == retries <= max_retries

\* retries < max_retries
MayRetry(retries) == retries < max_retries

ShortenInit ==
    /\ urls = [i \in Ids |-> NoUrl]
    /\ call = [c \in Calls |-> IdleCall]

---------------------------------------------------------------------------

Init ==
    /\ pc = [a \in Addrs |-> "start"]
    /\ username = [a \in Addrs |-> NoLine]
    /\ peers = {}
    /\ mbox = [a \in Addrs |-> <<>>]
    /\ rx = [a \in Addrs |-> "none"]
    /\ wmsg = [a \in Addrs |-> NoMsg]
    /\ bmsg = [a \in Addrs |-> NoMsg]
    /\ it = [a \in Addrs |-> IdleIter]
    /\ lines = 0
    /\ order = <<>>
    /\ RegistryInit
    /\ ShortenInit

\* state.broadcast(addr, message) is entered: the message is built and
\* self.peers.iter() is created (no shard locked yet).
StartBroadcast(a, kind, next) ==
    /\ pc' = [pc EXCEPT ![a] = next]
    /\ bmsg' = [bmsg EXCEPT ![a] = MkMessage(a, kind)]
    /\ it' = [it EXCEPT ![a] =
                [IdleIter EXCEPT !.snap = peers',
                                 !.busy = (order # <<>>)]]
    /\ order' = Append(order, a)

\* handle_client up to state.add: the prompt is written, the first line is
\* read and checked.  Any failure returns Err before anything is registered.
Handshake(a) ==
    /\ pc[a] = "start"
    /\ \/ \E line \in Lines :
            /\ username' = [username EXCEPT ![a] = line]
            /\ pc' = [pc EXCEPT ![a] =
                        IF UsernameRejected(line) THEN "rejected" ELSE "add"]
       \/ /\ pc' = [pc EXCEPT ![a] = "rejected"]
          /\ UNCHANGED username
    /\ UNCHANGED <<peers, mbox, rx, wmsg, bmsg, it, lines, order>>
    /\ UNCHANGED <<registryVars, shortenVars>>

\* state.add: a fresh channel, the registry insert, the writer task; then
\* the UserJoined broadcast is entered.
Add(a) ==
    /\ pc[a] = "add"
    /\ CanWrite(a)
    /\ peers' = Insert(peers, a)
    /\ mbox' = [mbox EXCEPT ![a] = NewChannel]
    /\ rx' = [rx EXCEPT ![a] = "recv"]
    /\ StartBroadcast(a, "Joined", "joined_bcast")
    /\ UNCHANGED <<username, wmsg, lines>>
    /\ UNCHANGED <<registryVars, shortenVars>>

\* peer.stream.next() yields a line: the Chat broadcast is entered.
ReadLine(a) ==
    /\ pc[a] = "read"
    /\ lines < MaxChat
    /\ lines' = lines + 1
    /\ UNCHANGED <<username, peers, mbox, rx, wmsg>>
    /\ StartBroadcast(a, "Chat", "chat_bcast")
    /\ UNCHANGED <<registryVars, shortenVars>>

\* peer.stream.next() yields None or an error: the read loop ends.
ReadEnd(a) ==
    /\ pc[a] = "read"
    /\ pc' = [pc EXCEPT ![a] = "remove"]
    /\ UNCHANGED <<username, peers, mbox, rx, wmsg, bmsg, it, lines, order>>
    /\ UNCHANGED <<registryVars, shortenVars>>

\* state.peers.remove(&addr), then the UserLeft broadcast is entered.
Remove(a) ==
    /\ pc[a] = "remove"
    /\ CanWrite(a)
    /\ peers' = RemoveKey(peers, a)
    /\ StartBroadcast(a, "Left", "left_bcast")
    /\ UNCHANGED <<username, mbox, rx, wmsg, lines>>
    /\ UNCHANGED <<registryVars, shortenVars>>

InBroadcast(a) == pc[a] \in {"joined_bcast", "chat_bcast", "left_bcast"}

\* A session that goes back to its read loop after any broadcast.
AfterBroadcastReads(p) == "read"

\* Where handle_client goes on when broadcast returns.
AfterBroadcast(p) == IF p = "left_bcast" THEN "closed" ELSE "read"

\* The loop of broadcast yields the next entry t that is not the sender's
\* and calls peer.value().send(message.clone()).await on it: the message is
\* queued, or the channel is closed (logged), or the channel is full and the
\* send waits, the iterator still holding the shard's read lock.
IterSend(a) ==
    /\ InBroadcast(a)
    /\ it[a].cur = NoAddr
    /\ NextPos(a).rest # {}
    /\ \E t \in NextPos(a).rest :
         /\ it' = [it EXCEPT ![a] =
                     [held |-> NextPos(a).held,
                      rest |-> NextPos(a).rest \ {t},
                      cur |-> IF SendOutcome(t) = "full" THEN t ELSE NoAddr,
                      log |-> IF SendOutcome(t) = "full" THEN it[a].log
                              ELSE Logged(a, t, SendOutcome(t)),
                      snap |-> it[a].snap,
                      busy |-> it[a].busy]]
         /\ mbox' = IF SendOutcome(t) = "ok"
                    THEN [mbox EXCEPT ![t] = Sent(t, @, bmsg[a])]
                    ELSE mbox
    /\ UNCHANGED <<pc, username, peers, rx, wmsg, bmsg, lines, order>>
    /\ UNCHANGED <<registryVars, shortenVars>>

\* A send that found the channel full is resumed: room was made (the
\* message is queued), or the receiver is gone (the send fails).
SendWake(a) ==
    /\ InBroadcast(a)
    /\ it[a].cur # NoAddr
    /\ SendOutcome(it[a].cur) # "full"
    /\ mbox' = IF SendOutcome(it[a].cur) = "ok"
               THEN [mbox EXCEPT ![it[a].cur] = Sent(it[a].cur, @, bmsg[a])]
               ELSE mbox
    /\ it' = [it EXCEPT ![a].cur = NoAddr,
                        ![a].log = Logged(a, it[a].cur, SendOutcome(it[a].cur))]
    /\ UNCHANGED <<pc, username, peers, rx, wmsg, bmsg, lines, order>>
    /\ UNCHANGED <<registryVars, shortenVars>>

\* The iterator is exhausted: it is dropped with its lock, broadcast
\* returns, and handle_client goes on to its next await (or returns).
IterEnd(a) ==
    /\ InBroadcast(a)
    /\ it[a].cur = NoAddr
    /\ NextPos(a).rest = {}
    /\ it' = [it EXCEPT ![a] = IdleIter]
    /\ bmsg' = [bmsg EXCEPT ![a] = NoMsg]
    /\ pc' = [pc EXCEPT ![a] = AfterBroadcast(pc[a])]
    /\ order' = SelectSeq(order, LAMBDA b : b # a)
    /\ UNCHANGED <<username, peers, mbox, rx, wmsg, lines>>
    /\ UNCHANGED <<registryVars, shortenVars>>

---------------------------------------------------------------------------
(* The writer task of a peer. *)

\* rx.recv() yields the oldest queued message and stream_sender.send is
\* called with it.  The write completes at once, or (a slow client) stays
\* pending.
Recv(a) ==
    /\ rx[a] = "recv"
    /\ mbox[a] # <<>>
    /\ mbox' = [mbox EXCEPT ![a] = Tail(@)]
    /\ \/ /\ Slow(a)
          /\ wmsg' = [wmsg EXCEPT ![a] = Head(mbox[a])]
          /\ rx' = [rx EXCEPT ![a] = "write"]
       \/ UNCHANGED <<wmsg, rx>>
    /\ UNCHANGED <<pc, username, peers, bmsg, it, lines, order>>
    /\ UNCHANGED <<registryVars, shortenVars>>

\* rx.recv() yields None: the queue is empty and the registry's sender was
\* dropped.
RecvNone(a) ==
    /\ rx[a] = "recv"
    /\ ChannelClosed(a)
    /\ rx' = [rx EXCEPT ![a] = "done"]
    /\ UNCHANGED <<pc, username, peers, mbox, wmsg, bmsg, it, lines, order>>
    /\ UNCHANGED <<registryVars, shortenVars>>

\* A pending stream_sender.send(..) completes.
WriteOk(a) ==
    /\ rx[a] = "write"
    /\ wmsg' = [wmsg EXCEPT ![a] = NoMsg]
    /\ rx' = [rx EXCEPT ![a] = "recv"]
    /\ UNCHANGED <<pc, username, peers, mbox, bmsg, it, lines, order>>
    /\ UNCHANGED <<registryVars, shortenVars>>

\* A pending stream_sender.send(..) fails: the loop breaks and the receiver
\* is dropped with whatever is still queued.
WriteErr(a) ==
    /\ rx[a] = "write"
    /\ wmsg' = [wmsg EXCEPT ![a] = NoMsg]
    /\ mbox' = [mbox EXCEPT ![a] = <<>>]
    /\ rx' = [rx EXCEPT ![a] = "failed"]
    /\ UNCHANGED <<pc, username, peers, bmsg, it, lines, order>>
    /\ UNCHANGED <<registryVars, shortenVars>>

---------------------------------------------------------------------------

\* The steps a session task or a writer task takes when the runtime polls
\* it, and the steps that wait for the client or the network.
Next ==
    \E a \in Addrs :
        \/ Handshake(a)
        \/ Add(a)
        \/ ReadLine(a)
        \/ ReadEnd(a)
        \/ Remove(a)
        \/ IterSend(a)
        \/ SendWake(a)
        \/ IterEnd(a)
        \/ Recv(a)
        \/ RecvNone(a)
        \/ WriteOk(a)
        \/ WriteErr(a)

Spec == Init /\ [][Next]_vars

\* A step the server takes by itself: one of a session task or a writer
\* task that waits for no client and no pending write, only for the runtime
\* to poll the task.
ServerStep ==
    \E a \in Addrs :
        \/ Add(a)
        \/ Remove(a)
        \/ IterSend(a)
        \/ SendWake(a)
        \/ IterEnd(a)
        \/ Recv(a)
        \/ RecvNone(a)

---------------------------------------------------------------------------
(* The registry when an address connects again: handle_client as far as it *)
(* touches AppState.peers.                                                 *)

\* listener.accept() yields a connection from address k, which no client
\* that is still connected uses; its username is read and accepted.
RegAccept(c, k) ==
    /\ conn[c] = "idle"
    /\ \A d \in Conns : OnWire(d) => raddr[d] # k
    /\ conn' = [conn EXCEPT ![c] = "add"]
    /\ raddr' = [raddr EXCEPT ![c] = k]
    /\ UNCHANGED <<entry, chan, removed>>
    /\ UNCHANGED <<chatVars, shortenVars>>

\* state.add: a fresh channel, and self.peers.insert(addr, tx), whose
\* return value (the Sender the address mapped to) is dropped.
RegAdd(c) ==
    /\ conn[c] = "add"
    /\ chan' = [DropSender(chan, entry[raddr[c]]) EXCEPT ![c] = "open"]
    /\ entry' = InsertEntry(entry, raddr[c], c)
    /\ conn' = [conn EXCEPT ![c] = "active"]
    /\ UNCHANGED <<raddr, removed>>
    /\ UNCHANGED <<chatVars, shortenVars>>

\* The client hangs up or resets the connection: the read loop will end.
RegReadEnd(c) ==
    /\ conn[c] = "active"
    /\ conn' = [conn EXCEPT ![c] = "remove"]
    /\ UNCHANGED <<raddr, entry, chan, removed>>
    /\ UNCHANGED <<chatVars, shortenVars>>

\* state.peers.remove(&addr), whose return value is dropped; the session
\* goes on to its UserLeft broadcast and returns Ok.
RegRemove(c) ==
    /\ conn[c] = "remove"
    /\ removed' = [removed EXCEPT ![c] =
                      IF entry[raddr[c]] = NoConn THEN "none" ELSE "some"]
    /\ chan' = DropSender(chan, entry[raddr[c]])
    /\ entry' = RemoveEntry(entry, raddr[c])
    /\ conn' = [conn EXCEPT ![c] = "closed"]
    /\ UNCHANGED raddr
    /\ UNCHANGED <<chatVars, shortenVars>>

RegistryNext ==
    \E c \in Conns :
        \/ \E k \in Addrs : RegAccept(c, k)
        \/ RegAdd(c)
        \/ RegReadEnd(c)
        \/ RegRemove(c)

RegistrySpec == Init /\ [][RegistryNext]_vars

---------------------------------------------------------------------------
(* AppState::shorten. *)

\* shorten(url) is called: the first id is drawn, retries = 0.
ShortenCall(c) ==
    /\ call[c].state = "idle"
    /\ \E url \in Urls, id \in Ids :
          call' = [call EXCEPT ![c] =
                     [IdleCall EXCEPT !.state = "insert", !.url = url, !.id = id]]
    /\ UNCHANGED urls
    /\ UNCHANGED <<chatVars, registryVars>>

\* One turn of the loop in which the database runs the statement: Ok(ret)
\* returns ret.id; a conflict on urls_pkey draws a new id and goes round
\* again while retries < max_retries, and returns RetryLimitExceeded if not.
ShortenInsert(c) ==
    /\ call[c].state = "insert"
    /\ LET out == InsertOutcome(urls, call[c].id, call[c].url)
           tried == [call[c] EXCEPT !.attempts = @ + 1]
       IN  /\ urls' = out.tbl
           /\ IF out.kind = "Ok"
              THEN call' = [call EXCEPT ![c] =
                             [tried EXCEPT !.state = "done",
                                           !.result = [kind |-> "Ok",
                                                       id |-> out.id]]]
              ELSE IF MayRetry(call[c].retries)
              THEN \E id \in Ids :
                      call' = [call EXCEPT ![c] =
                                 [tried EXCEPT !.retries = @ + 1, !.id = id]]
              ELSE call' = [call EXCEPT ![c] =
                              [tried EXCEPT !.state = "done",
                                  !.result = [kind |-> "RetryLimitExceeded",
                                              id |-> NoId]]]
    /\ UNCHANGED <<chatVars, registryVars>>

\* One turn of the loop in which the query fails otherwise: a database
\* error that is not a conflict on urls_pkey, or an error that is not of the
\* database (the connection, the pool): it is returned as it is.
ShortenError(c) ==
    /\ call[c].state = "insert"
    /\ \E kind \in {"Database", "Other"} :
          call' = [call EXCEPT ![c] =
                     [@ EXCEPT !.attempts = @ + 1, !.state = "done",
                               !.result = [kind |-> kind, id |-> NoId]]]
    /\ UNCHANGED urls
    /\ UNCHANGED <<chatVars, registryVars>>

ShortenNext ==
    \E c \in Calls :
        \/ ShortenCall(c)
        \/ ShortenInsert(c)
        \/ ShortenError(c)

ShortenSpec == Init /\ [][ShortenNext]_vars

---------------------------------------------------------------------------
(* Properties. *)

\* The messages held for peer p: the one its writer is writing, then those
\* queued in its channel, oldest first.
Pipeline(p) == (IF wmsg[p] = NoMsg THEN <<>> ELSE <<wmsg[p]>>) \o mbox[p]

\* The recipients session a still has to send to in its broadcast, beyond
\* the one its send is waiting on.
Pending(a) ==
    it[a].rest \cup
    UNION {Recipients(s, a) : s \in ShardsAfter(it[a].held)}

\* Session a waits in a send on a channel that is full.
Blocked(a) ==
    /\ InBroadcast(a)
    /\ it[a].cur # NoAddr
    /\ SendOutcome(it[a].cur) = "full"

\* C1: no self-delivery.  In every reachable state no message built by the
\* session of address p is queued for p, is being written to p, or was sent
\* (or is waiting to be sent) to p by p's own broadcast.
C1_NoSelfDelivery ==
    \A p \in Addrs :
        /\ \A i \in 1..Len(Pipeline(p)) : Pipeline(p)[i].from # p
        /\ \A i \in 1..Len(it[p].log) : it[p].log[i].to # p
        /\ it[p].cur # p

\* A registered session has finished the sends of a Chat broadcast: both
\* other peers were sent the message, its own entry was in the map.
C1_Witness ==
    \E a \in Addrs :
        /\ pc[a] = "chat_bcast"
        /\ a \in peers
        /\ Pending(a) = {}
        /\ it[a].cur = NoAddr
        /\ {it[a].log[i].to : i \in 1..Len(it[a].log)} = peers \ {a}
        /\ Cardinality(peers) = NumAddrs

\* C2: a full mailbox never stalls a broadcast.  No session ever waits in a
\* send on a channel that is full and whose writer is not draining it (its
\* write to the stream is pending) while other recipients of the broadcast
\* have not been sent the message yet.
C2_FullMailboxNeverStalls ==
    \A a \in Addrs :
        ~(Blocked(a) /\ rx[it[a].cur] = "write" /\ Pending(a) # {})

\* Session a is before session b among the sessions inside broadcast: a
\* entered its broadcast first.
IssuedBefore(a, b) ==
    \E i, j \in 1..Len(order) : i < j /\ order[i] = a /\ order[j] = b

\* This step is one of session a's broadcast (a send or a resumed send) and
\* it adds a message to the channel of peer p.
Enqueues(a, p) ==
    /\ InBroadcast(a)
    /\ it'[a] # it[a]
    /\ Len(mbox'[p]) = Len(mbox[p]) + 1

\* C3 as claimed: per-recipient FIFO by order of issue.  Whenever the
\* message of a broadcast is queued for peer p, no message that p's mailbox
\* or writer already holds belongs to a broadcast that was issued later.
C3_IssueOrderFifo ==
    [][\A a, p \in Addrs :
         Enqueues(a, p) =>
           \A i \in 1..Len(Pipeline(p)) :
             \A b \in Addrs :
               IssuedBefore(a, b) => Pipeline(p)[i] # bmsg[b]]_vars

\* C3 as amended: per-recipient FIFO by order of the sends on the peer's
\* channel.  A channel changes only by a message queued behind all those it
\* holds, by its writer taking the oldest one, or by the writer dropping it
\* after a failed write; the writer writes the message it took before it
\* takes the next.
C3_SendOrderFifo ==
    [][\A p \in Addrs :
         /\ mbox'[p] # mbox[p] =>
               \/ \E a \in Addrs :
                     /\ InBroadcast(a)
                     /\ mbox'[p] = mbox[p] \o <<bmsg[a]>>
                     /\ Pipeline(p)' = Pipeline(p) \o <<bmsg[a]>>
               \/ /\ mbox[p] # <<>>
                  /\ mbox'[p] = Tail(mbox[p])
                  /\ wmsg[p] = NoMsg
                  /\ wmsg'[p] \in {NoMsg, Head(mbox[p])}
               \/ /\ rx'[p] = "failed"
                  /\ mbox'[p] = <<>>
         /\ wmsg'[p] # wmsg[p] =>
               \/ wmsg[p] = NoMsg /\ mbox[p] # <<>> /\ wmsg'[p] = Head(mbox[p])
               \/ wmsg'[p] = NoMsg]_vars

\* The slow peer's writer is writing a message, two more are queued behind
\* it, and they come from broadcasts of two different sessions.
C3_Witness ==
    \E p \in Addrs :
        /\ rx[p] = "write"
        /\ Len(mbox[p]) = 2
        /\ mbox[p][1].from # mbox[p][2].from

\* C4: overflow drops the message.  A message whose send found the
\* recipient's channel full is not queued in that channel afterwards: when
\* the waiting send is over, the channel holds what it held.
C4_OverflowDrops ==
    [][\A a \in Addrs :
         (it[a].cur # NoAddr /\ it'[a].cur = NoAddr) =>
            mbox'[it[a].cur] = mbox[it[a].cur]]_vars

\* This step is a send (or a resumed send) of session a to peer t.
SendsTo(a, t) ==
    /\ InBroadcast(a)
    /\ it'[a] # it[a]
    /\ pc'[a] = pc[a]
    /\ \/ it[a].cur = t
       \/ it[a].cur = NoAddr /\ t \in NextPos(a).rest /\ t \notin it'[a].rest

\* C5: isolation under writer failure.  A send to a peer whose writer has
\* exited fails in that very step: the session does not wait, no channel
\* changes, the failure is recorded, and every other recipient the
\* broadcast had still to reach is still to be reached.
C5_ClosedMailboxIsolated ==
    [][\A a, t \in Addrs :
         (SendsTo(a, t) /\ ~RxAlive(t)) =>
            /\ it'[a].cur = NoAddr
            /\ mbox' = mbox
            /\ it'[a].log = it[a].log \o <<[to |-> t, res |-> "closed"]>>
            /\ Pending(a)' = Pending(a) \ {t}
            /\ InBroadcast(a)']_vars

\* A peer's writer failed while its entry is still in the map; a broadcast
\* got the error from that peer's channel and then queued its message for
\* another peer.
C5_Witness ==
    \E a, t, u \in Addrs :
        /\ rx[t] = "failed"
        /\ t \in peers
        /\ \E i, j \in 1..Len(it[a].log) :
              /\ i < j
              /\ it[a].log[i] = [to |-> t, res |-> "closed"]
              /\ it[a].log[j] = [to |-> u, res |-> "ok"]

\* The session of address a is in Closing or Closed: its read loop ended.
ReadLoopEnded(a) == pc[a] \in {"remove", "left_bcast", "closed"}

\* C6: a write error drives the session forward.  While the writer of a
\* session has exited on a write error and the session's read loop has not
\* ended, the server has a step to take by itself: the session is not left
\* Active with a closed mailbox until its client happens to act.
C6_WriteErrorClosesSession ==
    \A a \in Addrs :
        (rx[a] = "failed" /\ ~ReadLoopEnded(a)) => ENABLED ServerStep

\* A first line that is empty or holds only blanks.
Blank(line) == \A i \in 1..Len(line) : line[i] = " "

\* A message built by the session of address a is somewhere: in a broadcast
\* in progress, in a channel, or with a writer.
HasMessageFrom(a) ==
    \/ bmsg[a] # NoMsg
    \/ \E p \in Addrs : \E i \in 1..Len(Pipeline(p)) : Pipeline(p)[i].from = a

\* C7: empty username rejected.  A session whose first line was empty or
\* blank, or whose first read failed, is closed with an error and nothing
\* exists on its behalf: no map entry, no channel content, no writer task,
\* no broadcast and no message.
C7_EmptyUsernameRejected ==
    \A a \in Addrs :
        (pc[a] # "start" /\ (username[a] = NoLine \/ Blank(username[a]))) =>
            /\ pc[a] = "rejected"
            /\ a \notin peers
            /\ rx[a] = "none"
            /\ mbox[a] = <<>>
            /\ it[a] = IdleIter
            /\ ~HasMessageFrom(a)
            /\ \A i \in 1..Len(order) : order[i] # a

\* A session was rejected for a first line of one blank, and after that the
\* two other peers are registered and one has sent the other a message.
C7_Witness ==
    \E a \in Addrs :
        /\ pc[a] = "rejected"
        /\ username[a] = <<" ">>
        /\ peers = Addrs \ {a}
        /\ \E b \in peers : \E i \in 1..Len(it[b].log) : it[b].log[i].res = "ok"

C9_ClosingCompletes ==
    \A a \in Addrs :
        (ReadLoopEnded(a) /\ pc[a] # "closed") => ENABLED ServerStep

\* C10: no orphaned writer.  While the writer task of a session whose read
\* loop has ended is alive, the server has a step to take by itself: the
\* writer never stays alive until a client happens to act.
C10_NoOrphanedWriter ==
    \A a \in Addrs :
        (ReadLoopEnded(a) /\ RxAlive(a)) => ENABLED ServerStep

\* C11: a duplicate registration is rejected.  No step makes an address
\* that maps to the sender of one connection map to the sender of another:
\* an entry that is there is never replaced.
C11_DuplicateRejected ==
    [][\A k \in Addrs :
         (entry[k] # NoConn /\ entry'[k] # NoConn) => entry'[k] = entry[k]]_vars

\* C12: deregistration is idempotent.  peers.remove leaves every entry of
\* another address as it is and the session goes on to return; when the
\* address has no entry the map and the channels stay as they are, and
\* removing the address once more changes nothing.
C12_IdempotentDeregistration ==
    [][\A c \in Conns :
         (conn[c] = "remove" /\ conn'[c] # conn[c]) =>
            /\ conn'[c] = "closed"
            /\ \A k \in Addrs \ {raddr[c]} : entry'[k] = entry[k]
            /\ entry'[raddr[c]] = NoConn
            /\ entry[raddr[c]] = NoConn => (entry' = entry /\ chan' = chan)
            /\ RemoveEntry(entry', raddr[c]) = entry']_vars

\* A session's remove found no entry for its address (an earlier session
\* of the same address had removed it), while another address has one.
C12_Witness ==
    \E c \in Conns :
        /\ removed[c] = "none"
        /\ \E k \in Addrs \ {raddr[c]} : entry[k] # NoConn

\* C13: the mailbox bound.  In every reachable state the channel of a peer
\* holds at most MAX_MESSAGE messages.
C13_MailboxBound == \A p \in Addrs : Len(mbox[p]) <= MAX_MESSAGE

\* The channel of a peer holds MAX_MESSAGE messages while two sessions are
\* each waiting in a send on it.
C13_Witness ==
    \E p, a, b \in Addrs :
        /\ a # b
        /\ Len(mbox[p]) = MAX_MESSAGE
        /\ Blocked(a) /\ it[a].cur = p
        /\ Blocked(b) /\ it[b].cur = p

\* This step is the end of session a's broadcast.
Returns(a) == InBroadcast(a) /\ pc'[a] # pc[a]

\* The sends of session a's broadcast to peer t that are over.
SendsDone(a, t) == {i \in 1..Len(it[a].log) : it[a].log[i].to = t}

\* C14: fan-out completeness.  When a broadcast returns, every peer other
\* than the sender that had an entry from before the broadcast was entered
\* until now, and whose writer is alive, was sent the message exactly once
\* and the send succeeded; and a send that succeeds puts the message of the
\* broadcast at the back of the recipient's channel.
C14_FanOutComplete ==
    [][\A a \in Addrs :
         /\ Returns(a) =>
               \A t \in (it[a].snap \cap peers) \ {a} :
                  RxAlive(t) =>
                     /\ Cardinality(SendsDone(a, t)) = 1
                     /\ \A i \in SendsDone(a, t) : it[a].log[i].res = "ok"
         /\ \A t \in Addrs :
               (/\ InBroadcast(a)
                /\ Len(it'[a].log) = Len(it[a].log) + 1
                /\ it'[a].log[Len(it'[a].log)] = [to |-> t, res |-> "ok"]
                /\ Slow(t)) =>
                  mbox'[t] = mbox[t] \o <<bmsg[a]>>]_vars

\* A session that has removed its entry is about to return from its
\* UserLeft broadcast: each of the two other peers, registered all along,
\* was sent the message once, and the slow one holds it.
C14_Witness ==
    \E a \in Addrs :
        /\ pc[a] = "left_bcast"
        /\ it[a].cur = NoAddr
        /\ Pending(a) = {}
        /\ it[a].snap = Addrs \ {a}
        /\ \A t \in Addrs \ {a} :
              /\ t \in peers
              /\ Cardinality(SendsDone(a, t)) = 1
              /\ \A i \in SendsDone(a, t) : it[a].log[i].res = "ok"
        /\ \E p \in Addrs \ {a} :
              \E i \in 1..Len(Pipeline(p)) : Pipeline(p)[i] = MkMessage(a, "Left")

\* How far a session is in handle_client.
Stage(p) ==
    CASE p = "start" -> 0
      [] p = "add" -> 1
      [] p = "joined_bcast" -> 2
      [] p \in {"read", "chat_bcast"} -> 3
      [] p = "remove" -> 4
      [] p = "left_bcast" -> 5
      [] OTHER -> 6

\* This step enters a broadcast of session a with a message of this kind.
Issues(a, kind) == bmsg'[a] # bmsg[a] /\ bmsg'[a] = MkMessage(a, kind)

\* C15: presence ordering per session.  A session never goes back in
\* handle_client and is in one broadcast at a time.  It issues UserJoined
\* in the step that inserts its entry, and leaves state.add in no other
\* way; it issues Chat only from its read loop, its entry in the map; it
\* issues UserLeft in the step that removes its entry, and leaves its read
\* loop for good in no other way.  So UserJoined is issued once, before any
\* Chat, and UserLeft once, after every Chat, and nothing after it.
C15_PresenceOrdering ==
    [][\A a \in Addrs :
         /\ Stage(pc'[a]) >= Stage(pc[a])
         /\ bmsg'[a] # bmsg[a] =>
               \/ bmsg[a] # NoMsg /\ bmsg'[a] = NoMsg /\ Returns(a)
               \/ bmsg[a] = NoMsg /\ \E k \in {"Joined", "Chat", "Left"} :
                                        Issues(a, k)
         /\ Issues(a, "Joined") <=> (Stage(pc[a]) = 1 /\ Stage(pc'[a]) > 1)
         /\ Issues(a, "Joined") => (a \notin peers /\ a \in peers')
         /\ Issues(a, "Chat") =>
               (pc[a] = "read" /\ pc'[a] = "chat_bcast" /\ a \in peers')
         /\ Issues(a, "Left") <=> (Stage(pc[a]) = 4 /\ Stage(pc'[a]) > 4)
         /\ Issues(a, "Left") => (a \in peers /\ a \notin peers')]_vars

\* A session is in its UserLeft broadcast while the slow peer still holds
\* its UserJoined and its Chat, in that order.
C15_Witness ==
    \E a, p \in Addrs :
        /\ pc[a] = "left_bcast"
        /\ Len(Pipeline(p)) >= 2
        /\ Pipeline(p)[1] = MkMessage(a, "Joined")
        /\ Pipeline(p)[2] = MkMessage(a, "Chat")

\* C16: no delivery to a removed peer, with sessions registering and
\* deregistering while a broadcast runs.  Every send of a broadcast is to a
\* peer that has an entry in the map before and after the step, and to
\* which this broadcast has completed no send yet; and no step adds a
\* message to the channel of an address that has no entry.
C16_NoDeliveryToRemoved ==
    [][\A t \in Addrs :
         /\ \A a \in Addrs :
               SendsTo(a, t) =>
                  (t \in peers /\ t \in peers' /\ SendsDone(a, t) = {})
         /\ Len(mbox'[t]) > Len(mbox[t]) => t \in peers]_vars

\* While a broadcast runs, a peer it has sent the message to removes its
\* entry and another address registers and is sent the message too.
C16_Witness ==
    \E a, r, n \in Addrs :
        /\ InBroadcast(a)
        /\ r \in it[a].snap \ peers
        /\ n \in peers \ it[a].snap
        /\ SendsDone(a, r) # {}
        /\ SendsDone(a, n) # {}

\* C17: no backlog.  The channel and the writer of a peer hold nothing in
\* the step that inserts its entry, nor before; and a message is added to a
\* channel only by a broadcast that is in progress, of another session,
\* whose message it is: a broadcast that has returned adds nothing.
C17_NoBacklog ==
    [][\A p \in Addrs :
         /\ Stage(pc[p]) <= 1 => Pipeline(p) = <<>>
         /\ (p \notin peers /\ p \in peers') => Pipeline(p)' = <<>>
         /\ Len(mbox'[p]) > Len(mbox[p]) =>
               \E a \in Addrs \ {p} :
                  /\ InBroadcast(a) /\ InBroadcast(a)'
                  /\ bmsg[a] # NoMsg
                  /\ mbox'[p] = mbox[p] \o <<bmsg[a]>>]_vars

\* The slow peer registered after another peer had registered and returned
\* from its UserJoined broadcast (no session was inside broadcast then); it
\* is still in its own UserJoined broadcast and has since been sent a
\* message, which is not that peer's UserJoined.
C17_Witness ==
    \E p, a \in Addrs :
        /\ a # p
        /\ pc[p] = "joined_bcast"
        /\ ~it[p].busy
        /\ a \in it[p].snap
        /\ Pipeline(p) # <<>>
        /\ \A i \in 1..Len(Pipeline(p)) :
              /\ Pipeline(p)[i] # MkMessage(a, "Joined")
              /\ Pipeline(p)[i] # MkMessage(p, "Joined")

\* The place of a kind of message among those one session issues.
KindRank(k) ==
    CASE k = "Joined" -> 1
      [] k = "Chat" -> 2
      [] k = "Left" -> 3
      [] OTHER -> 0

\* The highest place a message session a has issued so far can have.
LastIssued(a) ==
    CASE Stage(pc[a]) <= 1 -> 0
      [] pc[a] = "joined_bcast" -> 1
      [] Stage(pc[a]) \in {3, 4} -> 2
      [] OTHER -> 3

\* C18: same-sender order.  A session is in one broadcast at a time, its
\* iterator idle outside of it; what a peer holds from one sender it holds
\* in the order UserJoined, Chat, UserLeft, with one UserJoined and one
\* UserLeft at most; and no peer holds a message its sender has yet to
\* issue.
C18_SameSenderOrder ==
    /\ \A a \in Addrs :
          /\ InBroadcast(a) <=> bmsg[a] # NoMsg
          /\ ~InBroadcast(a) => it[a] = IdleIter
          /\ InBroadcast(a) => KindRank(bmsg[a].kind) = LastIssued(a)
    /\ \A p \in Addrs :
          \A j \in 1..Len(Pipeline(p)) :
             /\ KindRank(Pipeline(p)[j].kind) <= LastIssued(Pipeline(p)[j].from)
             /\ \A i \in 1..(j - 1) :
                   Pipeline(p)[i].from = Pipeline(p)[j].from =>
                      \/ KindRank(Pipeline(p)[i].kind)
                            < KindRank(Pipeline(p)[j].kind)
                      \/ /\ Pipeline(p)[i].kind = "Chat"
                         /\ Pipeline(p)[j].kind = "Chat"

\* The slow peer holds the three messages of one session: its writer is
\* writing the UserJoined, the Chat and the UserLeft are queued behind.
C18_Witness ==
    \E p, a \in Addrs :
        Pipeline(p) = <<MkMessage(a, "Joined"), MkMessage(a, "Chat"),
                        MkMessage(a, "Left")>>

\* C19: drain on shutdown.  The step that removes a peer's entry leaves
\* what its channel and its writer hold, and the writer, as they are; the
\* writer ends its loop only with the entry gone and nothing left to write;
\* and once the entry is gone, what the peer holds changes only by its
\* oldest message being written, or by a failed write.
C19_DrainOnShutdown ==
    [][\A a \in Addrs :
         /\ (a \in peers /\ a \notin peers') =>
               (Pipeline(a)' = Pipeline(a) /\ rx'[a] = rx[a])
         /\ (rx[a] # "done" /\ rx'[a] = "done") =>
               (a \notin peers /\ Pipeline(a) = <<>>)
         /\ (a \notin peers /\ Pipeline(a)' # Pipeline(a)) =>
               \/ Pipeline(a) # <<>> /\ Pipeline(a)' = Tail(Pipeline(a))
               \/ rx[a] = "write" /\ rx'[a] = "failed"]_vars

\* The slow peer has removed its entry and returned while its writer is
\* writing one message and another is queued behind it.
C19_Witness ==
    \E a \in Addrs :
        /\ pc[a] = "closed"
        /\ a \notin peers
        /\ rx[a] = "write"
        /\ mbox[a] # <<>>

\* C20: bounded retry in shorten.  A call that is in its loop has made as
\* many attempts as it has retried and at most max_retries; each turn of
\* the loop is one more attempt, and either returns or is a retry; a retry
\* follows a conflict on urls_pkey and nothing else, and draws an id.  A
\* call that returned made one attempt more than its retries, at most
\* max_retries + 1: it returned Ok with the id the table stores for its url,
\* or RetryLimitExceeded after exactly max_retries + 1 attempts, or the
\* other error of its last attempt.
C20_BoundedRetry ==
    [][\A c \in Calls :
         /\ call'[c].retries <= max_retries
         /\ call'[c].attempts <= max_retries + 1
         /\ call'[c].state = "insert" =>
               call'[c].attempts = call'[c].retries
         /\ call'[c].state = "done" =>
               /\ call'[c].attempts = call'[c].retries + 1
               /\ call'[c].result.kind = "Ok" =>
                     urls'[call'[c].result.id] = call'[c].url
               /\ call'[c].result.kind = "RetryLimitExceeded" =>
                     call'[c].attempts = max_retries + 1
               /\ call'[c].result.kind \in
                     {"Ok", "RetryLimitExceeded", "Database", "Other"}
         /\ (call[c].state = "insert" /\ call'[c] # call[c]) =>
               /\ call'[c].attempts = call[c].attempts + 1
               /\ call'[c].url = call[c].url
               /\ \/ call'[c].state = "done" /\ call'[c].retries = call[c].retries
                  \/ /\ call'[c].state = "insert"
                     /\ call'[c].retries = call[c].retries + 1
                     /\ call'[c].id \in Ids
                     /\ InsertOutcome(urls, call[c].id, call[c].url).kind
                           = "urls_pkey"
               /\ (/\ InsertOutcome(urls, call[c].id, call[c].url).kind
                          = "urls_pkey"
                    /\ call'[c].state = "done"
                    /\ call'[c].result.kind = "RetryLimitExceeded") =>
                       call[c].retries = max_retries]_vars

\* A call returned RetryLimitExceeded while another returned Ok with the
\* id under which the table stores its url.
C20_Witness ==
    \E c, d \in Calls :
        /\ call[c].result.kind = "RetryLimitExceeded"
        /\ call[c].attempts = max_retries + 1
        /\ call[d].result.kind = "Ok"
        /\ urls[call[d].result.id] = call[d].url

====
